---- MODULE Spec2Model ----
(***************************************************************************)
(* Registration proxy of NextcloudRegisterIWI.                             *)
(*                                                                         *)
(*   backend/server.js     POST /api/auth and POST /api/nextcloud/user     *)
(*   src/services/api.ts   the client orchestrator ApiService.register     *)
(*                                                                         *)
(* A handler runs from one await to the next in one step.  What the        *)
(* identity provider (Raumzeit) and the storage platform (Nextcloud)       *)
(* answer is an input of the step that resumes the handler.                *)
(***************************************************************************)
EXTENDS Integers, Sequences, FiniteSets, TLC

VARIABLES reqs, cfg, admitted, cli, users

vars == <<reqs, cfg, admitted, cli, users>>

(***************************************************************************)
(* Bounds                                                                  *)
(***************************************************************************)
\* longest departments array the identity provider is taken to return
MaxDeps == 2

\* requests the backend serves at a time when the platform is one shared
\* user store
MaxConc == 2

(***************************************************************************)
(* JSON values.  A string is a sequence of one-character strings.          *)
(***************************************************************************)
Undefined == [t |-> "undefined", s |-> <<>>, n |-> 0]

Str(s) == [t |-> "string", s |-> s, n |-> 0]

Num(n) == [t |-> "number", s |-> <<>>, n |-> n]

Obj == [t |-> "object", s |-> <<>>, n |-> 0]

\* JavaScript truthiness, as used by `!x`, `x && y`, `x || y`, `if (x)`
Truthy(v) ==
    CASE v.t = "undefined" -> FALSE
      [] v.t = "string"    -> Len(v.s) > 0
      [] v.t = "number"    -> v.n # 0
      [] OTHER             -> TRUE

\* typeof v === 'string'
IsString(v) == v.t = "string"

Digit(n) ==
    CASE n = 0 -> "0" [] n = 1 -> "1" [] n = 2 -> "2" [] n = 3 -> "3"
      [] n = 4 -> "4" [] n = 5 -> "5" [] n = 6 -> "6" [] n = 7 -> "7"
      [] n = 8 -> "8" [] OTHER -> "9"

\* String(v), as done by a template literal and by URLSearchParams.append
ToStr(v) ==
    CASE v.t = "string"    -> v.s
      [] v.t = "number"    -> <<Digit(v.n)>>
      [] v.t = "undefined" -> <<"u","n","d","e","f","i","n","e","d">>
      [] OTHER             -> <<"[","o","b","j","e","c","t"," ","O","b","j","e","c","t","]">>

(***************************************************************************)
(* Input validation of /api/auth                                           *)
(***************************************************************************)
Lower == {"a","b","c","d","e","f","g","h","i","j","k","l","m",
          "n","o","p","q","r","s","t","u","v","w","x","y","z"}

Upper == {"A","B","C","D","E","F","G","H","I","J","K","L","M",
          "N","O","P","Q","R","S","T","U","V","W","X","Y","Z"}

Digits == {"0","1","2","3","4","5","6","7","8","9"}

\* the character class [a-zA-Z0-9._-]
UsernameChars == Lower \cup Upper \cup Digits \cup {".", "_", "-"}

\* the test without its anchors: /[a-zA-Z0-9._-]+/.test(s)
UsernameRegexTest_Unanchored(s) == \E i \in 1..Len(s) : s[i] \in UsernameChars

\* /^[a-zA-Z0-9._-]+$/.test(s)
UsernameRegexTest(s) ==
    /\ Len(s) >= 1
    /\ \A i \in 1..Len(s) : s[i] \in UsernameChars

MinPasswordLength == 1

MaxPasswordLength == 256

\* rzPassword.length < 1 || rzPassword.length > 256
PasswordLengthBad(s) == Len(s) < MinPasswordLength \/ Len(s) > MaxPasswordLength

(***************************************************************************)
(* Responses of the backend                                                *)
(***************************************************************************)
\* a message that is a literal of the program
Lit(text) == [lit |-> text, v |-> Undefined]

\* a message that is a value taken over from an upstream answer
Upstream(v) == [lit |-> "", v |-> v]

NoRes ==
    [status |-> 0, success |-> FALSE, message |-> Lit(""), fields |-> {},
     hasIWI |-> FALSE, isStudent |-> FALSE, username |-> Undefined]

\* res.status(status).json({ success, message })
Json(status, success, text) ==
    [status |-> status, success |-> success, message |-> Lit(text),
     fields |-> {"success", "message"},
     hasIWI |-> FALSE, isStudent |-> FALSE, username |-> Undefined]

(***************************************************************************)
(* Outbound calls                                                          *)
(***************************************************************************)
\* POST {RAUMZEIT_URL}/api/v1/persons { login, password }
IdentityCall(login, password) ==
    [kind |-> "identity", userid |-> login, password |-> password,
     email |-> <<>>, displayName |-> Undefined]

\* GET {NEXTCLOUD_URL}/ocs/v2.php/cloud/users/${rzUsername}
CheckCall(rzUsername) ==
    [kind |-> "check", userid |-> ToStr(rzUsername), password |-> <<>>,
     email |-> <<>>, displayName |-> Undefined]

(***************************************************************************)
(* Answers of the identity provider, as axios.post hands them over         *)
(***************************************************************************)
NoField == "<undefined>"

Deps(t, items) == [t |-> t, items |-> items]

NoDeps == Deps("undefined", <<>>)

\* response.data: null, the empty string, a text that is not JSON, an object
Payload(t, personType, departments) ==
    [t |-> t, personType |-> personType, departments |-> departments]

PNull == Payload("null", NoField, NoDeps)

PEmpty == Payload("empty", NoField, NoDeps)

PText == Payload("text", NoField, NoDeps)

NoOutcome == [kind |-> "none", status |-> 0, code |-> "", data |-> PNull]

IdResponse(status, data) ==
    [kind |-> "response", status |-> status, code |-> "", data |-> data]

\* an AxiosError without a response
IdNetError(code) == [kind |-> "error", status |-> 0, code |-> code, data |-> PNull]

\* axios' default validateStatus: status >= 200 && status < 300
DefaultValidateStatus(status) == status >= 200 /\ status < 300

\* if (x) on a payload
PayloadTruthy(d) == d.t \in {"text", "object"}

\* reading a property of null throws a TypeError
PropertyReadThrows(d) == d.t = "null"

\* the test without Array.isArray
HasIWI_NoArrayCheck(userData) ==
    /\ userData.departments.t # "undefined"
    /\ \E i \in 1..Len(userData.departments.items) :
           userData.departments.items[i] = "IWI"

\* userData.departments && Array.isArray(userData.departments) &&
\*     userData.departments.includes('IWI')
HasIWI(userData) ==
    /\ userData.departments.t # "undefined"
    /\ userData.departments.t = "array"
    /\ \E i \in 1..Len(userData.departments.items) :
           userData.departments.items[i] = "IWI"

\* userData.personType === 'STUDENT'
IsStudent(userData) == userData.personType = "STUDENT"

(***************************************************************************)
(* POST /api/auth                                                          *)
(***************************************************************************)
\* The validation of rzUsername and rzPassword: the 400 answer, or NoRes
\* when the credentials pass.
AuthValidate(body) ==
    IF ~Truthy(body.rzUsername) \/ ~Truthy(body.rzPassword)
    THEN Json(400, FALSE, "Username and password are required")
    ELSE IF ~IsString(body.rzUsername) \/ ~IsString(body.rzPassword)
    THEN Json(400, FALSE, "Invalid credentials format")
    ELSE IF ~UsernameRegexTest(body.rzUsername.s)
    THEN Json(400, FALSE, "Invalid username format")
    ELSE IF PasswordLengthBad(body.rzPassword.s)
    THEN Json(400, FALSE, "Invalid password")
    ELSE NoRes

\* What a failed await throws: [code, hasResponse, status]
Thrown(code, hasResponse, status) ==
    [code |-> code, hasResponse |-> hasResponse, status |-> status]

\* The error the try block of /api/auth ends with, for an answer that makes
\* it throw: axios rejects a network failure and a non-2xx status, and
\* raumzeitResponse.data.success is read (as an argument of logger.debug)
\* before the payload is tested.
IdentityThrows(o) ==
    \/ o.kind = "error"
    \/ o.kind = "response" /\ ~DefaultValidateStatus(o.status)
    \/ o.kind = "response" /\ PropertyReadThrows(o.data)

IdentityError(o) ==
    IF o.kind = "error" THEN Thrown(o.code, FALSE, 0)
    ELSE IF ~DefaultValidateStatus(o.status)
    THEN Thrown(IF o.status >= 500 THEN "ERR_BAD_RESPONSE" ELSE "ERR_BAD_REQUEST",
                TRUE, o.status)
    ELSE Thrown(NoField, FALSE, 0)

\* the catch without the test of error.code
AuthCatch_NoEnotfound(error) ==
    IF error.hasResponse /\ error.status \in {401, 403}
    THEN Json(401, FALSE, "Invalid username or password")
    ELSE Json(500, FALSE, "Internal server error")

\* catch (error) of /api/auth
AuthCatch(error) ==
    IF error.code = "ENOTFOUND"
    THEN Json(503, FALSE, "Authentication service unavailable. Please check your VPN connection or contact support.")
    ELSE IF error.hasResponse /\ error.status \in {401, 403}
    THEN Json(401, FALSE, "Invalid username or password")
    ELSE Json(500, FALSE, "Internal server error")

\* the verdict with the department tested before the student status
AuthVerdict_DepartmentFirst(o) ==
    IF o.status = 200 /\ PayloadTruthy(o.data)
    THEN IF ~HasIWI(o.data)
         THEN Json(403, FALSE, "Access denied: Student is not part of IWI")
         ELSE IF ~IsStudent(o.data)
         THEN Json(403, FALSE, "Access denied: Person is not a student")
         ELSE [Json(200, TRUE, "Authentication successful")
                  EXCEPT !.fields = @ \cup {"hasIWI", "isStudent"},
                         !.hasIWI = HasIWI(o.data),
                         !.isStudent = IsStudent(o.data)]
    ELSE Json(401, FALSE, "Authentication failed")

\* The verdict on an answer that did not throw (the department message is
\* written here without its last, non-ASCII word)
AuthVerdict(o) ==
    IF o.status = 200 /\ PayloadTruthy(o.data)
    THEN IF ~IsStudent(o.data)
         THEN Json(403, FALSE, "Access denied: Person is not a student")
         ELSE IF ~HasIWI(o.data)
         THEN Json(403, FALSE, "Access denied: Student is not part of IWI")
         ELSE [Json(200, TRUE, "Authentication successful")
                  EXCEPT !.fields = @ \cup {"hasIWI", "isStudent"},
                         !.hasIWI = HasIWI(o.data),
                         !.isStudent = IsStudent(o.data)]
    ELSE Json(401, FALSE, "Authentication failed")

\* a handler without the catch: the exception leaves it and nothing is sent
AuthRespond_NoCatch(o) ==
    IF IdentityThrows(o) THEN NoRes ELSE AuthVerdict(o)

\* The answer of /api/auth once the identity call has ended with o
AuthRespond(o) ==
    IF IdentityThrows(o) THEN AuthCatch(IdentityError(o)) ELSE AuthVerdict(o)

(***************************************************************************)
(* Answers of the storage platform, as axios hands them over               *)
(***************************************************************************)
Ocs(kind, status, code, statuscode, ocsStatus, message) ==
    [kind |-> kind, status |-> status, code |-> code,
     statuscode |-> statuscode, ocsStatus |-> ocsStatus, message |-> message]

NoOcs == Ocs("none", 0, "", Undefined, Undefined, Undefined)

\* validateStatus: (status) => status < 500
ValidateStatus(status) == status < 500

OcsThrows(o) == o.kind = "error" \/ ~ValidateStatus(o.status)

OcsError(o) ==
    IF o.kind = "error" THEN Thrown(o.code, FALSE, 0)
    ELSE Thrown("ERR_BAD_RESPONSE", TRUE, o.status)

StrOk == Str(<<"o", "k">>)

StrFailure == Str(<<"f", "a", "i", "l", "u", "r", "e">>)

\* the test without ocsStatus === 'ok'
OcsOk_CodeOnly(o) == o.statuscode = Num(100) \/ o.statuscode = Num(200)

\* ocsStatusCode === 100 || ocsStatusCode === 200 || ocsStatus === 'ok'
OcsOk(o) == o.statuscode = Num(100) \/ o.statuscode = Num(200) \/ o.ocsStatus = StrOk

\* ocsStatusCode === 404 || ocsStatusCode === 998 || ocsStatus === 'failure'
OcsNotFound(o) ==
    o.statuscode = Num(404) \/ o.statuscode = Num(998) \/ o.ocsStatus = StrFailure

ConfigError == Json(500, FALSE, "Server configuration error: Invalid Nextcloud admin credentials")

(***************************************************************************)
(* POST /api/nextcloud/user                                                *)
(***************************************************************************)
\* the first test without || !email
NcValidate_UsernameOnly(body, config) ==
    IF ~Truthy(body.rzUsername)
    THEN Json(400, FALSE, "Username and email are required")
    ELSE IF ~config.adminUser \/ ~config.adminPassword
    THEN Json(500, FALSE, "Server configuration error: Nextcloud admin credentials not set")
    ELSE NoRes

\* The checks made before the existence check: the answer, or NoRes when
\* the request passes.
NcValidate(body, config) ==
    IF ~Truthy(body.rzUsername) \/ ~Truthy(body.email)
    THEN Json(400, FALSE, "Username and email are required")
    ELSE IF ~config.adminUser \/ ~config.adminPassword
    THEN Json(500, FALSE, "Server configuration error: Nextcloud admin credentials not set")
    ELSE NoRes

\* catch (error) of /api/nextcloud/user
NcCatch(error) ==
    IF error.hasResponse
    THEN [Json(error.status, FALSE, "Failed to create user in Nextcloud")
             EXCEPT !.fields = @ \cup {"error"}]
    ELSE [Json(500, FALSE, "Internal server error")
             EXCEPT !.fields = @ \cup {"error"}]

AlreadyExists(body) ==
    [Json(409, FALSE, "User already exists in Nextcloud")
        EXCEPT !.fields = @ \cup {"username"}, !.username = body.rzUsername]

\* a handler that goes on to the creation also when the check says ok
CheckRespond_CreateAnyway(body, o) ==
    IF ~OcsThrows(o)
    THEN IF o.status = 401 THEN ConfigError
         ELSE NoRes
    ELSE IF OcsError(o).code # "ECONNREFUSED" /\ OcsError(o).code # "ENOTFOUND"
    THEN IF OcsError(o).hasResponse /\ OcsError(o).status = 401
         THEN ConfigError
         ELSE NcCatch(OcsError(o))
    ELSE NoRes

\* What the handler does once the existence check has ended with o: the
\* answer that ends the request, or NoRes when the handler goes on to the
\* creation.
CheckRespond(body, o) ==
    IF ~OcsThrows(o)
    THEN IF o.status = 401 THEN ConfigError
         ELSE IF OcsOk(o) THEN AlreadyExists(body)
         ELSE NoRes
    ELSE IF OcsError(o).code # "ECONNREFUSED" /\ OcsError(o).code # "ENOTFOUND"
    THEN IF OcsError(o).hasResponse /\ OcsError(o).status = 401
         THEN ConfigError
         ELSE NcCatch(OcsError(o))
    ELSE NoRes

\* the form without formData.append('email', email)
CreateCall_NoEmail(body) ==
    [kind |-> "create", userid |-> ToStr(body.rzUsername), password |-> <<>>,
     email |-> <<>>,
     displayName |-> IF Truthy(body.displayName)
                     THEN Str(ToStr(body.displayName)) ELSE Undefined]

\* POST {NEXTCLOUD_URL}/ocs/v2.php/cloud/users with the URLSearchParams
\* userid, email and, if (displayName), displayName
CreateCall(body) ==
    [kind |-> "create", userid |-> ToStr(body.rzUsername), password |-> <<>>,
     email |-> ToStr(body.email),
     displayName |-> IF Truthy(body.displayName)
                     THEN Str(ToStr(body.displayName)) ELSE Undefined]

Created(body) ==
    [Json(201, TRUE, "User created successfully in Nextcloud - Check your email for finishing the registration.")
        EXCEPT !.fields = @ \cup {"username"}, !.username = body.rzUsername]

\* the answer with the fixed message only
Rejected_FixedMessage(o) ==
    [Json(400, FALSE, "Failed to create user in Nextcloud")
        EXCEPT !.fields = @ \cup {"ocsStatusCode"}]

\* message: ocsMessage || 'Failed to create user in Nextcloud'
Rejected(o) ==
    [Json(400, FALSE, "Failed to create user in Nextcloud")
        EXCEPT !.fields = @ \cup {"ocsStatusCode"},
               !.message = IF Truthy(o.message) THEN Upstream(o.message) ELSE @]

\* the answer without the else-if on 997
CreateRespond_No997(body, o) ==
    IF OcsThrows(o) THEN NcCatch(OcsError(o))
    ELSE IF o.status = 401 THEN ConfigError
    ELSE IF OcsOk(o) THEN Created(body)
    ELSE Rejected(o)

\* The answer once the creation has ended with o
CreateRespond(body, o) ==
    IF OcsThrows(o) THEN NcCatch(OcsError(o))
    ELSE IF o.status = 401 THEN ConfigError
    ELSE IF OcsOk(o) THEN Created(body)
    ELSE IF o.statuscode = Num(997) THEN ConfigError
    ELSE Rejected(o)

(***************************************************************************)
(* The backend logger.  An entry is [level, message, data]; data is the    *)
(* logged object as the set of its leaves [key, v], key being the path of  *)
(* the leaf.  A value that does not come from the request (an upstream     *)
(* answer, a setting, a computed flag) is the leaf value Other.  DEBUG     *)
(* entries are the ones written with NODE_ENV === 'development'.           *)
(***************************************************************************)
Leaf(key, v) == [key |-> key, v |-> v]

Other == [t |-> "other", s |-> <<>>, n |-> 0]

Redacted == Str(<<"[", "R", "E", "D", "A", "C", "T", "E", "D", "]">>)

sensitiveFields == {"rzPassword", "password", "token", "secret", "apiKey", "authorization"}

\* if (sanitized[field]) for the leaf's own top-level key: a nested object
\* is truthy
Replaced(l) ==
    /\ l.key[1] \in sensitiveFields
    /\ (Len(l.key) > 1 \/ Truthy(l.v))

\* logger.sanitize: a shallow copy whose own keys in sensitiveFields, when
\* truthy, are replaced; nested objects under other keys stay as they are
Sanitize(data) ==
    {l \in data : ~Replaced(l)}
        \cup {Leaf(<<l.key[1]>>, Redacted) : l \in {m \in data : Replaced(m)}}

\* JSON.stringify leaves out the keys whose value is undefined
Stringify(data) == {l \in data : l.v.t # "undefined"}

Entry(level, message, data) ==
    [level |-> level, message |-> message, data |-> Stringify(Sanitize(data))]

\* the request logging middleware: { ...req.body } with rzPassword replaced
\* when truthy
SafeBody(body) ==
    [body EXCEPT !.rzPassword = IF Truthy(@) THEN Redacted ELSE @]

Incoming(body) ==
    Entry("INFO", "Incoming POST request",
          {Leaf(<<"path">>, Other), Leaf(<<"ip">>, Other), Leaf(<<"userAgent">>, Other)}
              \cup {Leaf(<<"body", f>>, SafeBody(body)[f]) : f \in DOMAIN body})

\* the logger calls of /api/auth before the identity call
AuthValidateLog(body) ==
    IF ~Truthy(body.rzUsername) \/ ~Truthy(body.rzPassword)
    THEN <<Entry("WARN", "Missing credentials", {Leaf(<<"rzUsername">>, Other)})>>
    ELSE IF ~IsString(body.rzUsername) \/ ~IsString(body.rzPassword)
    THEN <<Entry("WARN", "Invalid credential types", {Leaf(<<"rzUsername">>, Other)})>>
    ELSE IF ~UsernameRegexTest(body.rzUsername.s)
    THEN <<Entry("WARN", "Invalid username format", {Leaf(<<"rzUsername">>, body.rzUsername)})>>
    ELSE IF PasswordLengthBad(body.rzPassword.s)
    THEN <<Entry("WARN", "Invalid password length", {})>>
    ELSE <<Entry("INFO", "Authentication attempt", {Leaf(<<"rzUsername">>, body.rzUsername)})>>

\* the logger calls of /api/auth once the identity call has ended with o
AuthRespondLog(body, o) ==
    IF IdentityThrows(o)
    THEN <<Entry("ERROR", "Authentication API error",
                 {Leaf(<<"message">>, Other), Leaf(<<"code">>, Other),
                  Leaf(<<"response">>, Other), Leaf(<<"status">>, Other)})>>
    ELSE <<Entry("DEBUG", "Raumzeit API response",
                 {Leaf(<<"status">>, Other), Leaf(<<"success">>, Other)})>>
         \o (IF o.status = 200 /\ PayloadTruthy(o.data)
             THEN <<Entry("DEBUG", "User validation",
                          {Leaf(<<"rzUsername">>, body.rzUsername),
                           Leaf(<<"hasIWI">>, Other), Leaf(<<"isStudent">>, Other),
                           Leaf(<<"departments">>, Other), Leaf(<<"personType">>, Other)}),
                    IF ~IsStudent(o.data)
                    THEN Entry("WARN", "Access denied: Not a student",
                               {Leaf(<<"rzUsername">>, body.rzUsername),
                                Leaf(<<"personType">>, Other)})
                    ELSE IF ~HasIWI(o.data)
                    THEN Entry("WARN", "Access denied: Not part of IWI",
                               {Leaf(<<"rzUsername">>, body.rzUsername),
                                Leaf(<<"departments">>, Other)})
                    ELSE Entry("INFO", "Authentication successful",
                               {Leaf(<<"rzUsername">>, body.rzUsername),
                                Leaf(<<"hasIWI">>, Other), Leaf(<<"isStudent">>, Other)})>>
             ELSE <<Entry("WARN", "Authentication failed: Invalid credentials",
                          {Leaf(<<"rzUsername">>, body.rzUsername),
                           Leaf(<<"data">>, Other)})>>)

\* the logger calls of /api/nextcloud/user before the existence check
NcValidateLog(body, config) ==
    <<Entry("INFO", "Nextcloud user creation attempt",
            {Leaf(<<"rzUsername">>, body.rzUsername), Leaf(<<"email">>, body.email),
             Leaf(<<"displayName">>, body.displayName)})>>
    \o (IF ~Truthy(body.rzUsername) \/ ~Truthy(body.email)
        THEN <<Entry("WARN", "Missing required fields",
                     {Leaf(<<"rzUsername">>, body.rzUsername),
                      Leaf(<<"email">>, body.email)})>>
        ELSE IF ~config.adminUser \/ ~config.adminPassword
        THEN <<Entry("ERROR", "Nextcloud admin credentials not configured",
                     {Leaf(<<"hasUser">>, Other), Leaf(<<"hasPassword">>, Other)})>>
        ELSE <<Entry("DEBUG", "Checking if user exists in Nextcloud",
                     {Leaf(<<"rzUsername">>, body.rzUsername)})>>)

\* logger.error of the outer catch of /api/nextcloud/user
NcCatchLog ==
    Entry("ERROR", "Nextcloud API error",
          {Leaf(<<"message">>, Other), Leaf(<<"stack">>, Other),
           Leaf(<<"response">>, Other), Leaf(<<"status">>, Other)})

\* logger.debug before the form is built
CreatingLog(body) ==
    Entry("DEBUG", "Creating user in Nextcloud",
          {Leaf(<<"rzUsername">>, body.rzUsername), Leaf(<<"email">>, body.email)})

OcsLeaves(body) ==
    {Leaf(<<"rzUsername">>, body.rzUsername), Leaf(<<"httpStatus">>, Other),
     Leaf(<<"ocsStatus">>, Other), Leaf(<<"ocsStatusCode">>, Other),
     Leaf(<<"ocsMessage">>, Other)}

AdminLeaves(body) ==
    {Leaf(<<"rzUsername">>, body.rzUsername), Leaf(<<"httpStatus">>, Other),
     Leaf(<<"adminUser">>, Other)}

\* the logger calls once the existence check has ended with o
CheckRespondLog(body, o) ==
    IF ~OcsThrows(o)
    THEN IF o.status = 401
         THEN <<Entry("ERROR", "Nextcloud authentication failed - invalid admin credentials",
                      AdminLeaves(body))>>
         ELSE <<Entry("DEBUG", "User check response", OcsLeaves(body))>>
              \o (IF OcsOk(o)
                  THEN <<Entry("WARN", "User already exists in Nextcloud",
                               {Leaf(<<"rzUsername">>, body.rzUsername)})>>
                  ELSE (IF OcsNotFound(o)
                        THEN <<Entry("DEBUG", "User does not exist, proceeding with creation",
                                     {Leaf(<<"rzUsername">>, body.rzUsername)})>>
                        ELSE <<>>)
                       \o <<CreatingLog(body)>>)
    ELSE <<Entry("ERROR", "Error checking user existence",
                 {Leaf(<<"rzUsername">>, body.rzUsername), Leaf(<<"status">>, Other),
                  Leaf(<<"statusCode">>, Other), Leaf(<<"message">>, Other),
                  Leaf(<<"code">>, Other)})>>
         \o (IF OcsError(o).code # "ECONNREFUSED" /\ OcsError(o).code # "ENOTFOUND"
             THEN IF OcsError(o).hasResponse /\ OcsError(o).status = 401
                  THEN <<>>
                  ELSE <<NcCatchLog>>
             ELSE <<CreatingLog(body)>>)

\* the logger calls once the creation has ended with o
CreateRespondLog(body, o) ==
    IF OcsThrows(o) THEN <<NcCatchLog>>
    ELSE IF o.status = 401
    THEN <<Entry("ERROR", "Nextcloud authentication failed during user creation",
                 AdminLeaves(body))>>
    ELSE <<Entry("DEBUG", "User creation response", OcsLeaves(body)),
           IF OcsOk(o)
           THEN Entry("INFO", "User created successfully in Nextcloud",
                      {Leaf(<<"rzUsername">>, body.rzUsername),
                       Leaf(<<"email">>, body.email)})
           ELSE IF o.statuscode = Num(997)
           THEN Entry("ERROR", "Nextcloud authentication failed (OCS 997)",
                      {Leaf(<<"rzUsername">>, body.rzUsername),
                       Leaf(<<"adminUser">>, Other)})
           ELSE Entry("ERROR", "Failed to create user in Nextcloud",
                      {Leaf(<<"rzUsername">>, body.rzUsername),
                       Leaf(<<"ocsStatus">>, Other), Leaf(<<"ocsStatusCode">>, Other),
                       Leaf(<<"ocsMessage">>, Other)})>>

(***************************************************************************)
(* Inputs                                                                  *)
(***************************************************************************)
SeqsUpTo(S, n) == UNION {[1..k -> S] : k \in 0..n}

Fill(n) == [i \in 1..n |-> "x"]

NameJdoe == <<"j", "d", "o", "e">>

NameMixed == <<"a", ".", "B", "-", "1", "_">>

NameSlash == <<"j", "/", "x">>

NameNewline == <<"j", "d", "\n">>

Secret == <<"p", "w", "1", "2", "3">>

Mail == <<"j", "@", "e", ".", "d", "e">>

Display == <<"J", " ", "D">>

\* req.body: the four fields the handlers read, and the fields password
\* and secret a caller may add
Body(rzUsername, rzPassword, email, displayName) ==
    [rzUsername |-> rzUsername, rzPassword |-> rzPassword,
     email |-> email, displayName |-> displayName,
     password |-> Undefined, secret |-> Undefined]

Secret2 == <<"t", "o", "p">>

Secret3 == <<"k", "e", "y">>

\* what a caller adds to a body
Extras ==
    {<<Undefined, Undefined>>, <<Str(Secret2), Undefined>>, <<Undefined, Str(Secret3)>>}

WithExtras(body, x) == [body EXCEPT !.password = x[1], !.secret = x[2]]

NoBody == Body(Undefined, Undefined, Undefined, Undefined)

AuthUsernames ==
    {Undefined, Num(0), Num(7), Obj, Str(<<>>), Str(NameJdoe), Str(NameMixed),
     Str(NameSlash), Str(NameNewline)}

AuthPasswords ==
    {Undefined, Num(7), Str(<<>>), Str(Secret),
     Str(Fill(MaxPasswordLength)), Str(Fill(MaxPasswordLength + 1))}

AuthBodies ==
    {Body(u, p, Undefined, Undefined) : u \in AuthUsernames, p \in AuthPasswords}
        \cup {WithExtras(Body(Str(NameJdoe), p, Undefined, Undefined), x) :
                 p \in {Undefined, Str(Secret)}, x \in Extras}

NcBodies ==
    {Body(u, Undefined, e, d) :
        u \in {Undefined, Str(<<>>), Num(7), Str(NameJdoe)},
        e \in {Undefined, Str(<<>>), Str(Mail)},
        d \in {Undefined, Str(<<>>), Str(Display)}}
        \cup {WithExtras(Body(Str(NameJdoe), Undefined, Str(Mail), Undefined), x) :
                 x \in Extras}

PersonTypes == {NoField, "STUDENT", "EMPLOYEE"}

DepsValues ==
    {NoDeps, Deps("string", <<"IWI">>)}
        \cup {Deps("array", a) : a \in SeqsUpTo({"IWI", "CS"}, MaxDeps)}

Payloads ==
    {PNull, PEmpty, PText}
        \cup {Payload("object", pt, d) : pt \in PersonTypes, d \in DepsValues}

IdentityOutcomes ==
    {IdResponse(st, d) : st \in {200, 204}, d \in Payloads}
        \cup {IdResponse(st, PText) : st \in {401, 403, 404, 500}}
        \cup {IdNetError(c) : c \in {"ENOTFOUND", "ECONNREFUSED", "ECONNABORTED"}}

OcsCodes == {Undefined, Num(100), Num(200), Num(404), Num(998), Num(997), Num(102)}

OcsStatuses == {Undefined, StrOk, StrFailure}

OcsMessages == {Undefined, Str(<<>>), Str(<<"b", "a", "d">>)}

NetCodes == {"ECONNREFUSED", "ENOTFOUND", "ETIMEDOUT"}

\* the message of the existence check's answer is only logged
CheckOutcomes ==
    {Ocs("response", st, "", c, os, Undefined) :
        st \in {200, 401, 404, 503}, c \in OcsCodes, os \in OcsStatuses}
        \cup {Ocs("error", 0, c, Undefined, Undefined, Undefined) : c \in NetCodes}

CreateOutcomes ==
    {Ocs("response", st, "", c, os, m) :
        st \in {200, 401, 404, 503}, c \in OcsCodes, os \in OcsStatuses,
        m \in OcsMessages}
        \cup {Ocs("error", 0, c, Undefined, Undefined, Undefined) : c \in NetCodes}

(***************************************************************************)
(* State                                                                   *)
(*   reqs      per handler slot: the request being served                  *)
(*     ep      "auth" or "user"; from: "direct", "client" or "closed"      *)
(*     pc      "idle", "awaitIdentity", "awaitCheck", "awaitCreate", "done"*)
(*     out     the outbound calls issued for the request, in order         *)
(*     idOut, chkOut, creOut   how each outbound call ended                *)
(*     res     the answer sent                                             *)
(*     log     the entries the logger has written for the request          *)
(*     sent    the number of res.json calls made for the request           *)
(*     afterThrow  a direct caller's request, served in the slot before,   *)
(*                 went through a catch                                    *)
(*   cfg       NEXTCLOUD_ADMIN_USER / NEXTCLOUD_ADMIN_PASSWORD are set     *)
(*   admitted  identifiers /api/auth has answered 200 success:true for     *)
(*   cli       the client's register() call                                *)
(*   users     the identifiers the storage platform holds an account for   *)
(***************************************************************************)
Idle ==
    [ep |-> "none", from |-> "none", pc |-> "idle", body |-> NoBody,
     out |-> <<>>, idOut |-> NoOutcome, chkOut |-> NoOcs, creOut |-> NoOcs,
     res |-> NoRes, log |-> <<>>, sent |-> 0, afterThrow |-> FALSE]

Slots == DOMAIN reqs

Free(s) == reqs[s].pc = "idle"

\* res.status(...).json(...): one response sent, none for NoRes
Sends(res) == IF res = NoRes THEN 0 ELSE 1

\* the handler of the request r has been through a catch block
Threw(r) ==
    /\ r.pc = "done"
    /\ \/ r.idOut.kind # "none" /\ IdentityThrows(r.idOut)
       \/ r.chkOut.kind # "none" /\ OcsThrows(r.chkOut)
       \/ r.creOut.kind # "none" /\ OcsThrows(r.creOut)

\* no exception has left a handler: the process is running
Up == \A s \in Slots : ~(reqs[s].pc = "done" /\ reqs[s].res = NoRes)

\* the slot as a new request finds it
Fresh(s) == [Idle EXCEPT !.afterThrow = reqs[s].afterThrow]

\* the answer to a caller other than the waiting client has gone out; the
\* slot takes the next request
Release(s) ==
    /\ reqs[s].pc = "done" /\ reqs[s].from # "client"
    /\ reqs' = [reqs EXCEPT ![s] =
                   [Idle EXCEPT !.afterThrow =
                       reqs[s].afterThrow \/ (reqs[s].from = "direct" /\ Threw(reqs[s]))]]
    /\ UNCHANGED <<cfg, admitted, users, cli>>

\* /api/auth from its first line to the await of the identity call
AuthArrive(s, body, from) ==
    /\ Free(s) /\ Up
    /\ reqs' = [reqs EXCEPT ![s] =
          IF AuthValidate(body) # NoRes
          THEN [Fresh(s) EXCEPT !.ep = "auth", !.from = from, !.body = body,
                            !.pc = "done", !.res = AuthValidate(body),
                            !.sent = Sends(AuthValidate(body)),
                            !.log = <<Incoming(body)>> \o AuthValidateLog(body)]
          ELSE [Fresh(s) EXCEPT !.ep = "auth", !.from = from, !.body = body,
                            !.pc = "awaitIdentity",
                            !.log = <<Incoming(body)>> \o AuthValidateLog(body),
                            !.out = <<IdentityCall(body.rzUsername.s, body.rzPassword.s)>>]]
    /\ UNCHANGED <<cfg, admitted, users>>

\* /api/auth from the end of the identity call to its answer
IdentityResolve(s) ==
    /\ reqs[s].pc = "awaitIdentity"
    /\ \E o \in IdentityOutcomes :
          /\ reqs' = [reqs EXCEPT ![s].pc = "done", ![s].idOut = o,
                                  ![s].res = AuthRespond(o),
                                  ![s].sent = @ + Sends(AuthRespond(o)),
                                  ![s].log = @ \o AuthRespondLog(reqs[s].body, o)]
          /\ admitted' = IF AuthRespond(o).status = 200 /\ AuthRespond(o).success
                         THEN admitted \cup {reqs[s].body.rzUsername.s}
                         ELSE admitted
    /\ UNCHANGED <<cfg, users, cli>>

\* /api/nextcloud/user from its first line to the await of the existence check
NcArrive(s, body, from) ==
    /\ Free(s) /\ Up
    /\ reqs' = [reqs EXCEPT ![s] =
          IF NcValidate(body, cfg) # NoRes
          THEN [Fresh(s) EXCEPT !.ep = "user", !.from = from, !.body = body,
                            !.pc = "done", !.res = NcValidate(body, cfg),
                            !.sent = Sends(NcValidate(body, cfg)),
                            !.log = <<Incoming(body)>> \o NcValidateLog(body, cfg)]
          ELSE [Fresh(s) EXCEPT !.ep = "user", !.from = from, !.body = body,
                            !.pc = "awaitCheck",
                            !.log = <<Incoming(body)>> \o NcValidateLog(body, cfg),
                            !.out = <<CheckCall(body.rzUsername)>>]]
    /\ UNCHANGED <<cfg, admitted, users>>

\* a handler that sends the GET again when it failed without a response
CheckResume_Retry(r, o) ==
    IF o.kind = "error" /\ Len(r.out) < 2
    THEN [r EXCEPT !.chkOut = o, !.out = Append(@, CheckCall(r.body.rzUsername))]
    ELSE IF CheckRespond(r.body, o) # NoRes
    THEN [r EXCEPT !.pc = "done", !.chkOut = o, !.res = CheckRespond(r.body, o),
                   !.sent = @ + Sends(CheckRespond(r.body, o)),
                   !.log = @ \o CheckRespondLog(r.body, o)]
    ELSE [r EXCEPT !.pc = "awaitCreate", !.chkOut = o,
                   !.out = Append(@, CreateCall(r.body)),
                   !.log = @ \o CheckRespondLog(r.body, o)]

\* the request r when its existence check has ended in o: answered, or at
\* the await of the creation POST
CheckResume(r, o) ==
    IF CheckRespond(r.body, o) # NoRes
    THEN [r EXCEPT !.pc = "done", !.chkOut = o, !.res = CheckRespond(r.body, o),
                   !.sent = @ + Sends(CheckRespond(r.body, o)),
                   !.log = @ \o CheckRespondLog(r.body, o)]
    ELSE [r EXCEPT !.pc = "awaitCreate", !.chkOut = o,
                   !.out = Append(@, CreateCall(r.body)),
                   !.log = @ \o CheckRespondLog(r.body, o)]

\* the request r when its creation POST has ended in o
CreateResume(r, o) ==
    [r EXCEPT !.pc = "done", !.creOut = o, !.res = CreateRespond(r.body, o),
              !.sent = @ + Sends(CreateRespond(r.body, o)),
              !.log = @ \o CreateRespondLog(r.body, o)]

\* /api/nextcloud/user from the end of the existence check to its answer or
\* to the await of the creation
CheckResolve(s) ==
    /\ reqs[s].pc = "awaitCheck"
    /\ \E o \in CheckOutcomes : reqs' = [reqs EXCEPT ![s] = CheckResume(reqs[s], o)]
    /\ UNCHANGED <<cfg, admitted, users, cli>>

\* /api/nextcloud/user from the end of the creation to its answer
CreateResolve(s) ==
    /\ reqs[s].pc = "awaitCreate"
    /\ \E o \in CreateOutcomes : reqs' = [reqs EXCEPT ![s] = CreateResume(reqs[s], o)]
    /\ UNCHANGED <<cfg, admitted, users, cli>>

\* a request by any caller
DirectAuth(s) == \E body \in AuthBodies : AuthArrive(s, body, "direct") /\ UNCHANGED cli

DirectUser(s) == \E body \in NcBodies : NcArrive(s, body, "direct") /\ UNCHANGED cli

(***************************************************************************)
(* The client: ApiService of src/services/api.ts                           *)
(***************************************************************************)
\* How a call of the client's axios instance ends: the backend's answer, an
\* answer of something in between, or an error without a response.
Settled(kind, status, code, res) ==
    [kind |-> kind, status |-> status, code |-> code, res |-> res]

\* timeout: 10000 of the client, a lost connection, a gateway's own answer
LinkFailures ==
    {Settled("error", 0, "ECONNABORTED", NoRes),
     Settled("error", 0, "ERR_NETWORK", NoRes),
     Settled("response", 502, "", NoRes)}

MsgTruthy(m) == m.lit # "" \/ Truthy(m.v)

ApiResponse(success, data, message, error) ==
    [success |-> success, data |-> data, message |-> message, error |-> error]

NoApi == ApiResponse(FALSE, NoRes, Lit(""), Lit(""))

\* error.response?.data?.message || error.message || fallback
ErrorText(o) ==
    IF o.kind = "response" /\ MsgTruthy(o.res.message)
    THEN o.res.message ELSE Lit("error.message")

\* checkUserEligibility: the post resolves for a 2xx status only
CheckUserEligibility(o) ==
    IF o.kind = "response" /\ DefaultValidateStatus(o.status)
    THEN ApiResponse(TRUE, o.res, Lit("User is eligible"), Lit(""))
    ELSE ApiResponse(FALSE, NoRes, Lit(""), ErrorText(o))

\* createNextcloudUser: response.data on a 2xx status
CreateNextcloudUser(o) ==
    IF o.kind = "response" /\ DefaultValidateStatus(o.status)
    THEN ApiResponse(o.res.success, NoRes, o.res.message, Lit(""))
    ELSE ApiResponse(FALSE, NoRes, Lit(""), ErrorText(o))

NotSettled == Settled("none", 0, "", NoRes)

\* logged: what the interceptors have handed to the client logger;
\* pc: "idle", "awaitAuth", "awaitUser", "done"; net: where the pending call
\* is ("sent": on its way, "taken": being served); calls: the calls issued;
\* authOut, userOut: how they ended; elig: eligibilityCheck; result: what
\* register() returned
CliIdle ==
    [pc |-> "idle", data |-> NoBody, net |-> "none", calls |-> <<>>,
     authOut |-> NotSettled, userOut |-> NotSettled,
     elig |-> NoApi, result |-> NoApi, logged |-> <<>>]

\* What the interceptors hand to the client logger: [fn, url, data], data
\* being the handed value as the set of its leaves.
Handed(fn, url, data) == [fn |-> fn, url |-> url, data |-> Stringify(data)]

\* the request interceptor: { ...config.data } with rzPassword replaced when
\* truthy, handed to logger.logApiRequest
RequestHanded(url, sent) ==
    Handed("logApiRequest", url,
           {Leaf(<<f>>, SafeBody(sent)[f]) : f \in DOMAIN sent})

\* the AxiosError: message, code, the config of the call with its data (the
\* body as it was sent) and the response, if there is one
AxiosErrorLeaves(sent) ==
    {Leaf(<<"message">>, Other), Leaf(<<"code">>, Other),
     Leaf(<<"config", "url">>, Other), Leaf(<<"response", "data">>, Other)}
        \cup {Leaf(<<"config", "data", f>>, sent[f]) : f \in DOMAIN sent}

\* the response interceptor: response.data to logger.logApiResponse for a
\* 2xx status, the whole error to logger.logApiError otherwise
ResponseHanded(url, sent, o) ==
    IF o.kind = "response" /\ DefaultValidateStatus(o.status)
    THEN Handed("logApiResponse", url,
                {Leaf(<<"success">>, Other), Leaf(<<"message">>, Other),
                 Leaf(<<"username">>, o.res.username)})
    ELSE Handed("logApiError", url, AxiosErrorLeaves(sent))

RegisterData ==
    {Body(Str(u), Str(Secret), Str(Mail), Str(d)) :
        u \in {<<>>, NameJdoe, NameSlash}, d \in {<<>>, Display}}

\* the body of the /auth call: { rzUsername, rzPassword }
AuthData(data) == Body(data.rzUsername, data.rzPassword, Undefined, Undefined)

\* the body of the /nextcloud/user call: { rzUsername, email, displayName }
NextcloudUserData(data) == Body(data.rzUsername, Undefined, data.email, data.displayName)

\* the test inverted
ShortCircuit_Inverted(eligibilityCheck) == eligibilityCheck.success

\* if (!eligibilityCheck.success) return eligibilityCheck
ShortCircuit(eligibilityCheck) == ~eligibilityCheck.success

\* a register() that starts both calls at once
RegisterStart_Parallel ==
    /\ cli.pc \in {"idle", "done"}
    /\ \E data \in RegisterData :
          cli' = [CliIdle EXCEPT !.pc = "awaitAuth", !.data = data,
                                 !.net = "sent",
                                 !.calls = <<"/auth", "/nextcloud/user">>]
    /\ UNCHANGED <<reqs, cfg, admitted, users>>

\* register(data) up to the await of checkUserEligibility
RegisterStart ==
    /\ cli.pc \in {"idle", "done"}
    /\ \E data \in RegisterData :
          cli' = [CliIdle EXCEPT !.pc = "awaitAuth", !.data = data,
                                 !.net = "sent", !.calls = <<"/auth">>,
                                 !.logged = <<RequestHanded("/auth", AuthData(data))>>]
    /\ UNCHANGED <<reqs, cfg, admitted, users>>

\* register(data) from the end of the /auth call to its return or to the
\* await of createNextcloudUser
RegisterAfterAuth(o) ==
    cli' = IF ShortCircuit(CheckUserEligibility(o))
           THEN [cli EXCEPT !.pc = "done", !.net = "none", !.authOut = o,
                            !.elig = CheckUserEligibility(o),
                            !.result = CheckUserEligibility(o),
                            !.logged = Append(@, ResponseHanded("/auth", AuthData(cli.data), o))]
           ELSE [cli EXCEPT !.pc = "awaitUser", !.net = "sent", !.authOut = o,
                            !.elig = CheckUserEligibility(o),
                            !.calls = Append(@, "/nextcloud/user"),
                            !.logged = @ \o
                               <<ResponseHanded("/auth", AuthData(cli.data), o),
                                 RequestHanded("/nextcloud/user",
                                               NextcloudUserData(cli.data))>>]

\* register(data) from the end of the /nextcloud/user call to its return
RegisterAfterUser(o) ==
    cli' = [cli EXCEPT !.pc = "done", !.net = "none", !.userOut = o,
                       !.result = CreateNextcloudUser(o),
                       !.logged = Append(@, ResponseHanded("/nextcloud/user",
                                            NextcloudUserData(cli.data), o))]

\* the client gives up the connection of the request a slot serves for it
CloseAll == [s \in Slots |-> IF reqs[s].from = "client"
                             THEN [reqs[s] EXCEPT !.from = "closed"] ELSE reqs[s]]

\* the backend takes up the client's /auth call
ClientAuth(s) ==
    /\ cli.pc = "awaitAuth" /\ cli.net = "sent"
    /\ AuthArrive(s, AuthData(cli.data), "client")
    /\ cli' = [cli EXCEPT !.net = "taken"]

\* the backend's answer to /auth reaches the client
AuthDelivered(s) ==
    /\ cli.pc = "awaitAuth" /\ cli.net = "taken"
    /\ reqs[s].from = "client" /\ reqs[s].pc = "done"
    /\ RegisterAfterAuth(Settled("response", reqs[s].res.status, "", reqs[s].res))
    /\ reqs' = [reqs EXCEPT ![s] = Fresh(s)]
    /\ UNCHANGED <<cfg, admitted, users>>

\* the /auth call fails on the way
AuthLinkFails ==
    /\ cli.pc = "awaitAuth"
    /\ \E o \in LinkFailures : RegisterAfterAuth(o)
    /\ reqs' = CloseAll
    /\ UNCHANGED <<cfg, admitted, users>>

\* the backend takes up the client's /nextcloud/user call
ClientUser(s) ==
    /\ cli.pc = "awaitUser" /\ cli.net = "sent"
    /\ NcArrive(s, NextcloudUserData(cli.data), "client")
    /\ cli' = [cli EXCEPT !.net = "taken"]

\* the backend's answer to /nextcloud/user reaches the client
UserDelivered(s) ==
    /\ cli.pc = "awaitUser" /\ cli.net = "taken"
    /\ reqs[s].from = "client" /\ reqs[s].pc = "done"
    /\ RegisterAfterUser(Settled("response", reqs[s].res.status, "", reqs[s].res))
    /\ reqs' = [reqs EXCEPT ![s] = Fresh(s)]
    /\ UNCHANGED <<cfg, admitted, users>>

\* the /nextcloud/user call fails on the way
UserLinkFails ==
    /\ cli.pc = "awaitUser"
    /\ \E o \in LinkFailures : RegisterAfterUser(o)
    /\ reqs' = CloseAll
    /\ UNCHANGED <<cfg, admitted, users>>

(***************************************************************************)
(* Specifications                                                          *)
(***************************************************************************)
Init ==
    /\ reqs = [s \in {1} |-> Idle]
    /\ cfg \in [adminUser : BOOLEAN, adminPassword : BOOLEAN]
    /\ admitted = {}
    /\ cli = CliIdle
    /\ users = {}

\* the backend, called by anyone
Next ==
    \/ \E s \in Slots : DirectAuth(s)
    \/ \E s \in Slots : IdentityResolve(s)
    \/ \E s \in Slots : DirectUser(s)
    \/ \E s \in Slots : CheckResolve(s)
    \/ \E s \in Slots : CreateResolve(s)
    \/ \E s \in Slots : Release(s)

Spec == Init /\ [][Next]_vars

\* the backend, called by the client's register()
NextClient ==
    \/ RegisterStart
    \/ AuthLinkFails
    \/ UserLinkFails
    \/ \E s \in Slots : ClientAuth(s)
    \/ \E s \in Slots : IdentityResolve(s)
    \/ \E s \in Slots : AuthDelivered(s)
    \/ \E s \in Slots : ClientUser(s)
    \/ \E s \in Slots : CheckResolve(s)
    \/ \E s \in Slots : CreateResolve(s)
    \/ \E s \in Slots : UserDelivered(s)
    \/ \E s \in Slots : Release(s)

SpecClient == Init /\ [][NextClient]_vars

(***************************************************************************)
(* Upstream systems that may never answer                                  *)
(***************************************************************************)
IdentityTimeout == 10000

\* a call made without a timeout option: axios waits without end
NoTimeout == 0

\* the timeout option of the axios call
CallTimeout(call) == IF call.kind = "identity" THEN IdentityTimeout ELSE NoTimeout

Pending(s) == reqs[s].pc \in {"awaitIdentity", "awaitCheck", "awaitCreate"}

\* the await of a call that has a timeout ends: with the answer, or with
\* ECONNABORTED when the time is up
BoundedResolve(s) ==
    /\ Pending(s)
    /\ CallTimeout(reqs[s].out[Len(reqs[s].out)]) > 0
    /\ (IdentityResolve(s) \/ CheckResolve(s) \/ CreateResolve(s))

\* the slots of Init
LiveSlots == {1}

\* an await with a timeout does end, and an answer sent leaves the slot; a
\* call without a timeout ends only if the upstream system answers
Fairness == \A s \in LiveSlots : WF_vars(BoundedResolve(s)) /\ WF_vars(Release(s))

SpecLive == Init /\ [][Next]_vars /\ Fairness

(***************************************************************************)
(* Concurrent requests against one user store                              *)
(***************************************************************************)
\* GET cloud/users/{userid} of a platform that holds the accounts in store
PlatformCheck(store, call) ==
    IF call.userid \in store
    THEN Ocs("response", 200, "", Num(100), StrOk, Str(<<"O", "K">>))
    ELSE Ocs("response", 404, "", Num(404), StrFailure, Str(<<>>))

\* POST cloud/users of that platform: 102 when the account is there
PlatformCreate(store, call) ==
    IF call.userid \in store
    THEN Ocs("response", 400, "", Num(102), StrFailure, Str(<<"b", "a", "d">>))
    ELSE Ocs("response", 200, "", Num(100), StrOk, Str(<<"O", "K">>))

RaceBodies ==
    {Body(Str(u), Undefined, e, Undefined) :
        u \in {NameJdoe, NameMixed}, e \in {Undefined, Str(Mail)}}

RaceUser(s) == \E body \in RaceBodies : NcArrive(s, body, "direct") /\ UNCHANGED cli

\* a handler that answers 409 while another request is creating the same
\* identifier
CheckAnswered_Locked(s) ==
    /\ reqs[s].pc = "awaitCheck"
    /\ LET o == PlatformCheck(users, reqs[s].out[1])
           busy == \E t \in Slots \ {s} :
                      /\ reqs[t].pc = "awaitCreate"
                      /\ reqs[t].out[1].userid = reqs[s].out[1].userid
       IN  reqs' = [reqs EXCEPT ![s] =
                      IF busy
                      THEN [@ EXCEPT !.pc = "done", !.chkOut = o, !.sent = @ + 1,
                                     !.res = AlreadyExists(reqs[s].body)]
                      ELSE CheckResume(reqs[s], o)]
    /\ UNCHANGED <<cfg, admitted, users, cli>>

\* the existence check of a request is answered from the store
CheckAnswered(s) ==
    /\ reqs[s].pc = "awaitCheck"
    /\ reqs' = [reqs EXCEPT ![s] =
                   CheckResume(reqs[s], PlatformCheck(users, reqs[s].out[1]))]
    /\ UNCHANGED <<cfg, admitted, users, cli>>

\* the creation POST of a request is carried out on the store
CreateAnswered(s) ==
    /\ reqs[s].pc = "awaitCreate"
    /\ reqs' = [reqs EXCEPT ![s] =
                   CreateResume(reqs[s], PlatformCreate(users, reqs[s].out[2]))]
    /\ users' = users \cup {reqs[s].out[2].userid}
    /\ UNCHANGED <<cfg, admitted, cli>>

InitRace ==
    /\ reqs = [s \in 1..MaxConc |-> Idle]
    /\ cfg = [adminUser |-> TRUE, adminPassword |-> TRUE]
    /\ admitted = {}
    /\ cli = CliIdle
    /\ users = {}

NextRace ==
    \/ \E s \in Slots : RaceUser(s)
    \/ \E s \in Slots : CheckAnswered(s)
    \/ \E s \in Slots : CreateAnswered(s)
    \/ \E s \in Slots : Release(s)

SpecRace == InitRace /\ [][NextRace]_vars

(***************************************************************************)
(* Properties                                                              *)
(***************************************************************************)
StorageCalls(s) ==
    {i \in 1..Len(reqs[s].out) : reqs[s].out[i].kind \in {"check", "create"}}

CreateCalls(s) ==
    {i \in 1..Len(reqs[s].out) : reqs[s].out[i].kind = "create"}

IdentityCalls(s) ==
    {i \in 1..Len(reqs[s].out) : reqs[s].out[i].kind = "identity"}

\* C1: every existence check and every creation sent to the storage platform
\* is for an identifier that /api/auth has before answered 200 success:true
\* for, whatever requests the backend receives and from whom.
C1_StorageOnlyAfterAdmission ==
    \A s \in Slots : \A i \in StorageCalls(s) : reqs[s].out[i].userid \in admitted

\* the /auth call of register() has ended without a 2xx answer
AuthCallFailed ==
    /\ cli.authOut.kind # "none"
    /\ ~(cli.authOut.kind = "response"
            /\ cli.authOut.status >= 200 /\ cli.authOut.status <= 299)

\* C2: when the /auth call of register() ends with a non-2xx status or with a
\* network error, register() has issued no /nextcloud/user call and has
\* returned the eligibility failure, success = false.
C2_DeniedShortCircuits ==
    AuthCallFailed =>
        /\ cli.calls = <<"/auth">>
        /\ cli.pc = "done"
        /\ ~cli.result.success
        /\ cli.result = cli.elig
        /\ \A s \in Slots : ~(reqs[s].from = "client" /\ reqs[s].ep = "user")

C2_Witness ==
    /\ AuthCallFailed
    /\ cli.authOut.status = 403
    /\ cli.pc = "done"

\* the identity provider answered 200 with personType "STUDENT" and a
\* departments array that contains "IWI"
EligibleAnswer(o) ==
    /\ o.kind = "response" /\ o.status = 200
    /\ o.data.t = "object"
    /\ o.data.personType = "STUDENT"
    /\ o.data.departments.t = "array"
    /\ \E i \in 1..Len(o.data.departments.items) : o.data.departments.items[i] = "IWI"

\* C3: /api/auth answers 200 success:true exactly when the identity provider
\* answered 200 with personType "STUDENT" and a departments array containing
\* "IWI"; that answer carries hasIWI = true and isStudent = true; no other
\* answer of /api/auth has success:true or status 200.
C3_AdmittedIffEligible ==
    \A s \in Slots :
        reqs[s].ep = "auth" /\ reqs[s].pc = "done" =>
            /\ (reqs[s].res.status = 200 /\ reqs[s].res.success)
                   <=> EligibleAnswer(reqs[s].idOut)
            /\ reqs[s].res.success => reqs[s].res.status = 200
            /\ reqs[s].res.status = 200 =>
                   /\ reqs[s].res.success
                   /\ {"hasIWI", "isStudent"} \subseteq reqs[s].res.fields
                   /\ reqs[s].res.hasIWI /\ reqs[s].res.isStudent

C3_Witness ==
    \E s \in Slots :
        /\ reqs[s].ep = "auth" /\ reqs[s].pc = "done"
        /\ EligibleAnswer(reqs[s].idOut)
        /\ reqs[s].res.status = 200

NotStudentAnswer == Json(403, FALSE, "Access denied: Person is not a student")

NotDepartmentAnswer == Json(403, FALSE, "Access denied: Student is not part of IWI")

\* the identity provider answered 200 with a payload (a non-empty body)
AnsweredWithPayload(o) ==
    o.kind = "response" /\ o.status = 200 /\ o.data.t \in {"object", "text"}

IwiMember(o) ==
    /\ o.data.departments.t = "array"
    /\ \E i \in 1..Len(o.data.departments.items) : o.data.departments.items[i] = "IWI"

\* C4: for a 200 answer of the identity provider with a payload whose
\* personType is not "STUDENT", /api/auth answers 403 not-a-student whatever
\* departments holds; it answers 403 not-in-department only for personType
\* "STUDENT" with "IWI" not a member of departments.
C4_StudentCheckedFirst ==
    \A s \in Slots :
        reqs[s].ep = "auth" /\ reqs[s].pc = "done" =>
            /\ (AnsweredWithPayload(reqs[s].idOut)
                    /\ reqs[s].idOut.data.personType # "STUDENT")
                   => reqs[s].res = NotStudentAnswer
            /\ reqs[s].res = NotDepartmentAnswer
                   => /\ AnsweredWithPayload(reqs[s].idOut)
                      /\ reqs[s].idOut.data.personType = "STUDENT"
                      /\ ~IwiMember(reqs[s].idOut)
            /\ (AnsweredWithPayload(reqs[s].idOut)
                    /\ reqs[s].idOut.data.personType = "STUDENT"
                    /\ ~IwiMember(reqs[s].idOut))
                   => reqs[s].res = NotDepartmentAnswer

C4_Witness ==
    \E s \in Slots :
        /\ reqs[s].ep = "auth" /\ reqs[s].pc = "done"
        /\ AnsweredWithPayload(reqs[s].idOut)
        /\ reqs[s].idOut.data.personType = "EMPLOYEE"
        /\ reqs[s].idOut.data.departments = Deps("array", <<"CS">>)
        /\ reqs[s].res = NotStudentAnswer

\* v is missing, empty or not a string
NotAFilledString(v) == v.t # "string" \/ Len(v.s) = 0

\* the credentials the claim C5 is about
BadCredentials(body) ==
    \/ NotAFilledString(body.rzUsername)
    \/ NotAFilledString(body.rzPassword)
    \/ \E i \in 1..Len(body.rzUsername.s) : body.rzUsername.s[i] \notin UsernameChars
    \/ Len(body.rzPassword.s) < 1
    \/ Len(body.rzPassword.s) > 256

\* C5: a /api/auth request whose identifier or secret is missing, empty or
\* not a string, whose identifier has a character outside [A-Za-z0-9._-], or
\* whose secret is longer than 256, is answered 400 with no call to the
\* identity provider.
C5_BadCredentialsRejectedLocally ==
    \A s \in Slots :
        reqs[s].ep = "auth" /\ BadCredentials(reqs[s].body) =>
            /\ reqs[s].pc = "done"
            /\ reqs[s].res.status = 400 /\ ~reqs[s].res.success
            /\ IdentityCalls(s) = {}
            /\ reqs[s].out = <<>>

C5_Witness ==
    \E s \in Slots :
        /\ reqs[s].ep = "auth" /\ reqs[s].pc = "done"
        /\ reqs[s].body.rzUsername = Str(NameSlash)
        /\ reqs[s].body.rzPassword = Str(Secret)
        /\ reqs[s].res.status = 400
        /\ reqs[s].out = <<>>

\* the inner status of an answer of the storage platform signals "ok"
InnerOk(o) ==
    o.statuscode \in {Num(100), Num(200)} \/ o.ocsStatus = Str(<<"o", "k">>)

\* the inner status signals "not found" / "failure"
InnerNotFound(o) ==
    \/ o.statuscode \in {Num(404), Num(998)}
    \/ o.ocsStatus = Str(<<"f", "a", "i", "l", "u", "r", "e">>)

\* axios resolved the call with a response (outer status below 500)
Resolved(o) == o.kind = "response" /\ o.status < 500

AlreadyExistsAnswer(s) ==
    /\ reqs[s].pc = "done"
    /\ reqs[s].res.status = 409 /\ ~reqs[s].res.success
    /\ reqs[s].res.message = Lit("User already exists in Nextcloud")

\* C6, as stated: once the existence check has resolved with an inner status
\* signalling "ok", the request ends 409 ALREADY_EXISTS with no creation POST.
C6_Original ==
    \A s \in Slots :
        reqs[s].ep = "user" /\ Resolved(reqs[s].chkOut) /\ InnerOk(reqs[s].chkOut) =>
            AlreadyExistsAnswer(s) /\ CreateCalls(s) = {}

\* C6, amended: once the existence check has resolved with an outer status
\* other than 401 and an inner status signalling "ok", the request ends 409
\* ALREADY_EXISTS, success:false, with no creation POST; with outer status
\* 401 there is no creation POST either.
C6_OkMeansAlreadyExists ==
    \A s \in Slots :
        reqs[s].ep = "user" /\ Resolved(reqs[s].chkOut) /\ InnerOk(reqs[s].chkOut) =>
            /\ CreateCalls(s) = {}
            /\ reqs[s].chkOut.status # 401 => AlreadyExistsAnswer(s)

C6_Witness ==
    \E s \in Slots :
        /\ reqs[s].ep = "user"
        /\ reqs[s].chkOut = Ocs("response", 200, "", Undefined, StrOk, Undefined)
        /\ AlreadyExistsAnswer(s)
        /\ CreateCalls(s) = {}

\* exactly one creation POST, with the request's identifier and email
OneCreation(s) ==
    /\ Cardinality(CreateCalls(s)) = 1
    /\ \A i \in CreateCalls(s) :
          /\ reqs[s].out[i].userid = ToStr(reqs[s].body.rzUsername)
          /\ reqs[s].out[i].email = ToStr(reqs[s].body.email)

\* C7, as stated: with identifier and email present, an existence check whose
\* inner status signals "not found"/"failure" and whose outer status is not
\* 401 is followed by exactly one creation POST with identifier and email.
C7_Original ==
    \A s \in Slots :
        (/\ reqs[s].ep = "user"
         /\ reqs[s].chkOut.kind = "response"
         /\ InnerNotFound(reqs[s].chkOut)
         /\ reqs[s].chkOut.status # 401) => OneCreation(s)

\* C7, amended: with identifier and email present, an existence check that
\* resolves with an outer status below 500 and other than 401, whose inner
\* status signals "not found"/"failure" and does not signal "ok", is
\* followed by exactly one creation POST with that identifier and email.
C7_NotFoundMeansOneCreation ==
    \A s \in Slots :
        (/\ reqs[s].ep = "user"
         /\ Resolved(reqs[s].chkOut)
         /\ InnerNotFound(reqs[s].chkOut)
         /\ ~InnerOk(reqs[s].chkOut)
         /\ reqs[s].chkOut.status # 401) => OneCreation(s)

C7_Witness ==
    \E s \in Slots :
        /\ reqs[s].ep = "user" /\ reqs[s].pc = "awaitCreate"
        /\ reqs[s].body.rzUsername = Str(NameJdoe)
        /\ reqs[s].chkOut = Ocs("response", 404, "", Num(404), StrFailure, Undefined)
        /\ OneCreation(s)

\* the existence check ended with outer 401, inner "ok" or inner "not found"
Recognised(o) ==
    \/ o.kind = "response" /\ o.status = 401
    \/ o.kind = "response" /\ InnerOk(o)
    \/ o.kind = "response" /\ InnerNotFound(o)

\* C8: an existence check that ends in anything but outer 401, inner "ok" or
\* inner "not found"/"failure" ends the request as an unexpected failure with
\* no creation POST, except for a connection-refused or host-not-found error,
\* after which the creation is attempted.
C8_UnknownCheckResultFails ==
    \A s \in Slots :
        reqs[s].ep = "user" /\ reqs[s].chkOut.kind # "none"
                /\ ~Recognised(reqs[s].chkOut) =>
            IF reqs[s].chkOut.kind = "error"
                  /\ reqs[s].chkOut.code \in {"ECONNREFUSED", "ENOTFOUND"}
            THEN Cardinality(CreateCalls(s)) = 1
            ELSE /\ reqs[s].pc = "done"
                 /\ ~reqs[s].res.success /\ reqs[s].res.status >= 500
                 /\ CreateCalls(s) = {}

ConfigFault(s) ==
    /\ reqs[s].pc = "done"
    /\ reqs[s].res.status = 500 /\ ~reqs[s].res.success
    /\ reqs[s].res.message =
          Lit("Server configuration error: Invalid Nextcloud admin credentials")

\* C9, as stated: an outer 401 on the existence check gives 500 configuration
\* error with no creation, an outer 401 on the creation gives 500, and inner
\* status code 997 on the creation gives 500.
C9_Original ==
    \A s \in Slots :
        reqs[s].ep = "user" =>
            /\ (reqs[s].chkOut.kind = "response" /\ reqs[s].chkOut.status = 401)
                   => ConfigFault(s) /\ CreateCalls(s) = {}
            /\ (reqs[s].creOut.kind = "response" /\ reqs[s].creOut.status = 401)
                   => ConfigFault(s)
            /\ (reqs[s].creOut.kind = "response" /\ reqs[s].creOut.statuscode = Num(997))
                   => ConfigFault(s)

\* C9, amended: an outer 401 on the existence check gives 500 configuration
\* error with no creation, an outer 401 on the creation gives 500, and inner
\* status code 997 on a creation that resolved (outer status below 500)
\* without an inner status signalling "ok" gives 500; none of them is
\* answered with a 4xx status.
C9_CredentialRejectionIsServerFault ==
    \A s \in Slots :
        reqs[s].ep = "user" =>
            /\ (reqs[s].chkOut.kind = "response" /\ reqs[s].chkOut.status = 401)
                   => ConfigFault(s) /\ CreateCalls(s) = {}
            /\ (reqs[s].creOut.kind = "response" /\ reqs[s].creOut.status = 401)
                   => ConfigFault(s)
            /\ (Resolved(reqs[s].creOut) /\ reqs[s].creOut.statuscode = Num(997)
                    /\ ~InnerOk(reqs[s].creOut))
                   => ConfigFault(s)

C9_Witness ==
    \E s \in Slots :
        /\ reqs[s].ep = "user"
        /\ reqs[s].creOut = Ocs("response", 200, "", Num(997), StrFailure, Str(<<"b", "a", "d">>))
        /\ ConfigFault(s)

CreatedAnswer(s) ==
    /\ reqs[s].pc = "done"
    /\ reqs[s].res.status = 201 /\ reqs[s].res.success
    /\ "username" \in reqs[s].res.fields
    /\ reqs[s].res.username = reqs[s].body.rzUsername

\* the creation resolved with an outer status other than 401
CreationReturned(o) == Resolved(o) /\ o.status # 401

\* the creation failed for another reason than a rejected credential
OtherInnerFailure(o) == ~InnerOk(o) /\ o.statuscode # Num(997)

\* C10, as stated: a creation that returns with inner "ok" gives 201
\* success:true with the requested identifier; with any other inner failure
\* than 997 it gives 400 whose message is the message the platform returned.
C10_Original ==
    \A s \in Slots :
        reqs[s].ep = "user" /\ CreationReturned(reqs[s].creOut) =>
            /\ InnerOk(reqs[s].creOut) => CreatedAnswer(s)
            /\ OtherInnerFailure(reqs[s].creOut) =>
                  /\ reqs[s].res.status = 400 /\ ~reqs[s].res.success
                  /\ reqs[s].creOut.message # Undefined
                        => reqs[s].res.message = Upstream(reqs[s].creOut.message)

\* C10, amended: a creation that resolves (outer status below 500, not 401)
\* with inner "ok" gives 201 success:true with the requested identifier; with
\* any other inner failure than 997 it gives 400 whose message is the
\* platform's message when that is non-empty, and the fixed text "Failed to
\* create user in Nextcloud" when the platform's message is empty or absent.
C10_CreationResultMapping ==
    \A s \in Slots :
        reqs[s].ep = "user" /\ CreationReturned(reqs[s].creOut) =>
            /\ InnerOk(reqs[s].creOut) => CreatedAnswer(s)
            /\ OtherInnerFailure(reqs[s].creOut) =>
                  /\ reqs[s].res.status = 400 /\ ~reqs[s].res.success
                  /\ reqs[s].res.message =
                        IF reqs[s].creOut.message \in {Undefined, Str(<<>>)}
                        THEN Lit("Failed to create user in Nextcloud")
                        ELSE Upstream(reqs[s].creOut.message)

C10_Witness ==
    \E s \in Slots :
        /\ reqs[s].ep = "user" /\ reqs[s].pc = "done"
        /\ reqs[s].creOut = Ocs("response", 200, "", Num(102), StrFailure, Str(<<"b", "a", "d">>))
        /\ reqs[s].res.status = 400
        /\ reqs[s].res.message = Upstream(Str(<<"b", "a", "d">>))

\* the display name the claim C11 expects in the creation POST
ExpectedDisplayName(body) ==
    IF body.displayName.t = "undefined" \/ body.displayName = Str(<<>>)
    THEN Str(ToStr(body.rzUsername))
    ELSE Str(ToStr(body.displayName))

\* C11: every creation POST carries a display name: the request's
\* displayName when one is given, and the identifier when the request omits
\* it or gives an empty one.
C11_DisplayNameDefaultsToIdentifier ==
    \A s \in Slots : \A i \in CreateCalls(s) :
        reqs[s].out[i].displayName = ExpectedDisplayName(reqs[s].body)

AuthDone(s) == reqs[s].ep = "auth" /\ reqs[s].pc = "done"

\* C13: when the identity call fails with ENOTFOUND, /api/auth answers 503,
\* success:false, and neither 401 nor 403.
C13_UnresolvableHostIs503 ==
    \A s \in Slots :
        (AuthDone(s) /\ reqs[s].idOut.kind = "error"
                /\ reqs[s].idOut.code = "ENOTFOUND") =>
            /\ reqs[s].res.status = 503
            /\ ~reqs[s].res.success
            /\ reqs[s].res.status \notin {401, 403}

C13_Witness ==
    \E s \in Slots :
        /\ AuthDone(s)
        /\ reqs[s].idOut = IdNetError("ENOTFOUND")
        /\ reqs[s].res.status = 503

\* C14: a 401 or 403 answer of the identity provider, and a 200 answer with
\* an empty or null body, each make /api/auth answer 401.
C14_AuthFailedIs401 ==
    \A s \in Slots :
        (/\ AuthDone(s)
         /\ reqs[s].idOut.kind = "response"
         /\ \/ reqs[s].idOut.status \in {401, 403}
            \/ reqs[s].idOut.status = 200 /\ reqs[s].idOut.data.t \in {"empty", "null"})
            => reqs[s].res.status = 401 /\ ~reqs[s].res.success

\* a 2xx answer whose body is not the JSON object the handler reads
Malformed(o) ==
    /\ o.status >= 200 /\ o.status <= 299
    /\ o.data.t = "text"

\* C15: an answer of the identity provider that is non-2xx and not 401/403,
\* and a malformed answer, make /api/auth answer 401 and no 5xx.
C15_OtherAnswersAre401 ==
    \A s \in Slots :
        (/\ AuthDone(s)
         /\ reqs[s].idOut.kind = "response"
         /\ \/ /\ ~(reqs[s].idOut.status >= 200 /\ reqs[s].idOut.status <= 299)
               /\ reqs[s].idOut.status \notin {401, 403}
            \/ Malformed(reqs[s].idOut))
            => reqs[s].res.status = 401 /\ ~reqs[s].res.success

\* C16: a timeout of the identity call gives what an unresolvable host
\* gives: 503.
C16_TimeoutIs503 ==
    \A s \in Slots :
        (AuthDone(s) /\ reqs[s].idOut.kind = "error"
                /\ reqs[s].idOut.code = "ECONNABORTED") =>
            reqs[s].res.status = 503 /\ ~reqs[s].res.success

\* the request ended on an outbound call that failed at the network level
EndedOnNetworkFailure(s) ==
    /\ reqs[s].pc = "done"
    /\ \/ reqs[s].idOut.kind = "error"
       \/ reqs[s].chkOut.kind = "error" /\ reqs[s].creOut.kind = "none"
       \/ reqs[s].creOut.kind = "error"

\* C17: a request that ends on a network-level failure of an outbound call
\* (identity call, existence check or creation) is answered 503, and never
\* 401 or 403.
C17_NetworkFailureIs503 ==
    \A s \in Slots :
        EndedOnNetworkFailure(s) =>
            /\ reqs[s].res.status = 503
            /\ reqs[s].res.status \notin {401, 403}

CheckCalls(s) ==
    {i \in 1..Len(reqs[s].out) : reqs[s].out[i].kind = "check"}

ClientCalled(path) == \E i \in 1..Len(cli.calls) : cli.calls[i] = path

\* C18: the client has issued /nextcloud/user only when the /auth call has
\* ended and its verdict is known, and a creation POST is in a request's
\* calls only when its existence check has ended, the GET being the earlier
\* call.
C18_CallsAreSequential ==
    /\ ClientCalled("/nextcloud/user") =>
          /\ cli.authOut.kind # "none"
          /\ cli.elig = CheckUserEligibility(cli.authOut)
          /\ cli.calls = <<"/auth", "/nextcloud/user">>
    /\ \A s \in Slots : \A i \in CreateCalls(s) :
          /\ reqs[s].chkOut.kind # "none"
          /\ \E j \in CheckCalls(s) : j < i

C18_Witness ==
    /\ ClientCalled("/nextcloud/user")
    /\ \E s \in Slots :
          /\ reqs[s].from = "client"
          /\ reqs[s].pc = "awaitCreate"
          /\ CreateCalls(s) # {}

\* C19: a request issues the identity POST, the existence-check GET and the
\* creation POST at most once each, and a call that has failed is followed
\* by no call of its kind.
C19_NoRetry ==
    \A s \in Slots :
        /\ Cardinality(IdentityCalls(s)) <= 1
        /\ Cardinality(CheckCalls(s)) <= 1
        /\ Cardinality(CreateCalls(s)) <= 1
        /\ reqs[s].idOut.kind # "none" => Len(reqs[s].out) = 1
        /\ reqs[s].chkOut.kind # "none" =>
              \A i \in CheckCalls(s) : i = 1
        /\ reqs[s].creOut.kind # "none" => Len(reqs[s].out) = 2

\* a failed existence check and a failed creation, each sent once
C19_Witness ==
    \E s \in Slots :
        /\ reqs[s].pc = "done"
        /\ reqs[s].chkOut.kind = "error"
        /\ reqs[s].creOut.kind = "error"
        /\ Len(reqs[s].out) = 2

\* the requests s and t are for the same identifier, each has had "not
\* found" from its existence check, and neither creation has run
BothSawNotFound(s, t) ==
    /\ s # t
    /\ reqs[s].pc = "awaitCreate" /\ reqs[t].pc = "awaitCreate"
    /\ reqs[s].out[1].userid = reqs[t].out[1].userid
    /\ reqs[s].chkOut.statuscode = Num(404) /\ reqs[t].chkOut.statuscode = Num(404)

\* C20: nothing a concurrent request does keeps a request whose existence
\* check said "not found" from issuing its creation POST: it has issued one,
\* for its own identifier, whatever the other requests are at.
C20_CheckThenCreateNotAtomic ==
    \A s \in Slots :
        (reqs[s].chkOut.kind = "response" /\ reqs[s].chkOut.statuscode = Num(404)) =>
            /\ Cardinality(CreateCalls(s)) = 1
            /\ reqs[s].out[2].userid = reqs[s].out[1].userid

\* the race: two creation POSTs for one identifier are out
C20_Witness ==
    \E s, t \in Slots :
        /\ BothSawNotFound(s, t)
        /\ CreateCalls(s) # {} /\ CreateCalls(t) # {}
        /\ reqs[s].out[2].userid = reqs[t].out[2].userid
        /\ reqs[s].out[2].userid \notin users

\* the body fields that hold a secret
SecretFields == {"rzPassword", "password", "secret"}

HoldsSecret(body, f) == IsString(body[f]) /\ body[f].s # <<>>

\* C12: no entry the logger has written for a request holds the value of a
\* secret field (rzPassword, password, secret) of the request's body.
C12_NoSecretInLog ==
    \A s \in Slots : \A i \in 1..Len(reqs[s].log) : \A f \in SecretFields :
        HoldsSecret(reqs[s].body, f) =>
            \A l \in reqs[s].log[i].data : l.v # reqs[s].body[f]

\* C21: every request a handler has taken up is answered in the end, also
\* when an upstream system never answers.
C21_EveryRequestAnswered ==
    \A s \in LiveSlots : Pending(s) ~> (reqs[s].pc = "done")

\* the field is not in the body, or is the empty string
MissingOrEmpty(v) == v = Undefined \/ v = Str(<<>>)

\* C22: a /api/nextcloud/user request whose rzUsername or email is missing
\* or empty is answered 400 at once, and no call to the storage platform is
\* made for it, whatever the configuration.
C22_MissingFieldsRejectedLocally ==
    \A s \in Slots :
        (/\ reqs[s].ep = "user"
         /\ MissingOrEmpty(reqs[s].body.rzUsername) \/ MissingOrEmpty(reqs[s].body.email))
            => /\ reqs[s].pc = "done"
               /\ reqs[s].res.status = 400 /\ ~reqs[s].res.success
               /\ reqs[s].out = <<>>
               /\ reqs[s].chkOut = NoOcs /\ reqs[s].creOut = NoOcs

\* an identifier with an empty email, rejected
C22_Witness ==
    \E s \in Slots :
        /\ reqs[s].ep = "user" /\ reqs[s].pc = "done"
        /\ reqs[s].body.rzUsername = Str(NameJdoe)
        /\ reqs[s].body.email = Str(<<>>)
        /\ reqs[s].res.status = 400
        /\ reqs[s].out = <<>>

\* the existence check of the request in slot s ends in this step
CheckEnds(s) == reqs[s].pc = "awaitCheck" /\ reqs'[s].pc # "awaitCheck"

\* C23: what an existence check ends in depends on the platform's accounts
\* alone, and the check leaves them as they are: for an identifier that has
\* an account the request ends 409 "already exists" with no creation POST,
\* for one that has none the request goes on to its creation POST; so
\* requests for one identifier with no creation in between end alike.
C23_ExistenceCheckIdempotent ==
    [][\A s \in Slots :
          CheckEnds(s) =>
             /\ users' = users
             /\ IF reqs[s].out[1].userid \in users
                THEN /\ reqs'[s].pc = "done"
                     /\ reqs'[s].res = AlreadyExists(reqs[s].body)
                     /\ reqs'[s].res.status = 409
                     /\ reqs'[s].out = reqs[s].out
                ELSE /\ reqs'[s].pc = "awaitCreate"
                     /\ Len(reqs'[s].out) = 2]_vars

\* two requests for an identifier that has an account, both ended 409
C23_Witness ==
    \E s, t \in Slots :
        /\ s # t
        /\ reqs[s].pc = "done" /\ reqs[t].pc = "done"
        /\ reqs[s].res.status = 409 /\ reqs[t].res.status = 409
        /\ reqs[s].out = reqs[t].out
        /\ Len(reqs[s].out) = 1
        /\ reqs[s].out[1].userid \in users

\* C24: every exception of a handler ends in its catch: a handler that has
\* ended has sent one response, one that is at an await has sent none, no
\* request gets a second response, and no exception has left a handler, so
\* the process is up for the requests that follow.
C24_OneResponseAndStillUp ==
    /\ Up
    /\ \A s \in Slots :
          /\ reqs[s].sent <= 1
          /\ reqs[s].pc = "done" => reqs[s].sent = 1 /\ reqs[s].res # NoRes
          /\ reqs[s].pc # "done" => reqs[s].sent = 0 /\ reqs[s].res = NoRes

\* after a request that ended in a catch, the slot has taken a request whose
\* identity answer could not be read, and has answered it from the catch
C24_Witness ==
    \E s \in Slots :
        /\ reqs[s].afterThrow
        /\ reqs[s].pc = "done"
        /\ reqs[s].idOut.kind = "response" /\ PropertyReadThrows(reqs[s].idOut.data)
        /\ reqs[s].sent = 1
        /\ reqs[s].res.status = 500

\* C25: nothing the interceptors have handed to the client logger for a
\* register() call holds the rzPassword of its data.
C25_ClientNeverLogsPassword ==
    \A i \in 1..Len(cli.logged) :
        HoldsSecret(cli.data, "rzPassword") =>
            \A l \in cli.logged[i].data : l.v # cli.data.rzPassword

====
